---- MODULE Spec2Model ----
(***************************************************************************)
(* Model of the yep framework's action registry (yep/actions/actions.go)  *)
(* and of the pool generator (yep/models/generate.go).                     *)
(*                                                                         *)
(* Two specifications share the module:                                    *)
(*   SpecActions  the action lookup table under concurrent callers         *)
(*   Spec         GeneratePool: bootstrap simulation, then one generation  *)
(*                unit and one output file per registered model            *)
(***************************************************************************)
EXTENDS Integers, Sequences, FiniteSets, TLC

VARIABLES
    \* ---- yep/actions: Registry *Collection ----
    actions,      \* Collection.actions : id -> name of the stored *BaseAction, or NoAction
    mu,           \* Collection.RWMutex : NoHolder, or the caller holding the write lock
    wpc,          \* position of each registering caller inside Collection.Add
    warg,         \* the *BaseAction each registering caller passes to Add
    rpc,          \* position of each reading caller inside MakeActionRef
    rid,          \* the id each reading caller asks for
    rraced,       \* whether a map write happened while the caller's map read was in progress
    rref,         \* the ActionRef returned to each reading caller
    added,        \* history: id -> name given by the last completed store for that id
    \* ---- yep/models: modelRegistry and GeneratePool ----
    registry,     \* modelRegistry.registryByName : model name -> modelInfo
    commonMixins, \* modelRegistry.commonMixins : slice (backing array and length)
    astData,      \* the astData argument of GeneratePool
    pc,           \* position of the GeneratePool caller
    bstep,        \* index in BootstrapSteps of the bootstrap function to call next
    run,          \* number of GeneratePool calls started so far
    todo,         \* models the range loop of GeneratePool has not visited yet
    files,        \* the output directory: file name -> generation unit written, or NoFile
    writer,       \* history: file name -> models whose unit was written to it in this run
    declared,     \* history: the registry as statically declared (before any bootstrap)
    atCall,       \* history: the registry and common mixins at the start of the current call
    afterBoot,    \* history: the registry after the bootstrap of each call
    \* ---- generated pool package, used as in yep/tests ----
    db,           \* the records of Test__Post: record -> value of each field
    got,          \* what the last call of a generated accessor returned
    tagged,       \* history: record -> the tag records last given to SetTags for it
    \* ---- generateModelPoolFile run by concurrent goroutines ----
    workers       \* goroutine -> its position, model, local variables and history

actionVars == <<actions, mu, wpc, warg, rpc, rid, rraced, rref, added>>
genVars == <<registry, commonMixins, astData, pc, bstep, run, todo, files, writer,
             declared, atCall, afterBoot>>
poolVars == <<db, got, tagged>>
parVars == <<workers>>
vars == <<actionVars, genVars, poolVars, parVars>>

(***************************************************************************)
(* Model bounds                                                            *)
(***************************************************************************)
\* number of concurrent callers of Collection.Add
NumWriters == 1
\* number of concurrent callers of MakeActionRef
NumReaders == 1
\* number of GeneratePool calls made in one process
MaxRuns == 2
\* spare capacity of the commonMixins slice beyond its length
MaxSpare == 1
\* longest parameter-name list astData holds for one method
MaxNames == 3
\* largest number of records in a recordset passed to a generated accessor
MaxRecords == 2

(***************************************************************************)
(* yep/actions/actions.go                                                  *)
(***************************************************************************)
Writers == 1..NumWriters
Readers == (NumWriters + 1)..(NumWriters + NumReaders)

\* action ids and names the callers use; "" is the zero string
ActionIds == {"", "a1"}
ActionNames == {"", "My Action", "Other"}

\* The fields of BaseAction that MakeActionRef reads.
BaseAction == [ID : ActionIds, Name : ActionNames]

\* BaseAction{}
ZeroAction == [ID |-> "", Name |-> ""]

\* A *BaseAction is Nil or <<a>>, a pointer to a.
Nil == <<>>
Ptr(a) == <<a>>
Deref(p) == p[1]

\* NewActionsCollection: an empty map. Reading a missing key of a Go map
\* yields the zero value, here the nil pointer.
NewActionsCollection == [id \in ActionIds |-> Nil]

\* ar.actions[a.ID] = a
Store(m, a) == [m EXCEPT ![a.ID] = Ptr(a)]

\* Collection.GetById: return ar.actions[id]
GetById(id) == actions[id]

\* ActionRef{} : the zero [2]string
EmptyRef == <<"", "">>

\* The body of MakeActionRef once GetById has returned action.
MakeActionRefNoNilCheck(id, action) ==
    IF action = Nil THEN <<id, "">> ELSE <<id, Deref(action).Name>>
MakeActionRefFrom(id, action) ==
    IF action = Nil THEN EmptyRef ELSE <<id, Deref(action).Name>>

MakeActionRef(id) == MakeActionRefFrom(id, GetById(id))

\* encoding/json: Marshal(nil) is null, Marshal([2]string{a, b}) is ["a","b"]
JSONNull == <<"null">>
JSONArray(elems) == <<"[">> \o elems \o <<"]">>

\* ActionRef.MarshalJSON
MarshalJSON(ar) ==
    IF ar[1] = "" THEN JSONNull ELSE JSONArray(<<ar[1], ar[2]>>)

\* ActionRef.Value
Value(ar) == ar[1]

\* The RWMutex is held by no caller.
NoHolder == 0

\* The Go runtime ends the process on a detected concurrent map access.
Alive == \A r \in Readers : rpc[r] # "fatal"

\* Collection.Add, ar.Lock(): blocks while the lock is held.
AddLock(w, a) ==
    /\ Alive
    /\ wpc[w] = "idle"
    /\ mu = NoHolder
    /\ mu' = w
    /\ wpc' = [wpc EXCEPT ![w] = "locked"]
    /\ warg' = [warg EXCEPT ![w] = a]
    /\ UNCHANGED <<actions, rpc, rid, rraced, rref, added>>

\* Collection.Add, ar.actions[a.ID] = a. A map read in progress in another
\* goroutine is a data race with this write.
AddStore(w) ==
    /\ Alive
    /\ wpc[w] = "locked"
    /\ actions' = Store(actions, warg[w])
    /\ added' = [added EXCEPT ![warg[w].ID] = <<warg[w].Name>>]
    /\ rraced' = [r \in Readers |-> rraced[r] \/ rpc[r] = "reading"]
    /\ wpc' = [wpc EXCEPT ![w] = "stored"]
    /\ UNCHANGED <<mu, warg, rpc, rid, rref>>

\* Collection.Add, the deferred ar.Unlock()
AddUnlock(w) ==
    /\ Alive
    /\ wpc[w] = "stored"
    /\ mu' = NoHolder
    /\ wpc' = [wpc EXCEPT ![w] = "idle"]
    /\ warg' = [warg EXCEPT ![w] = ZeroAction]
    /\ UNCHANGED <<actions, rpc, rid, rraced, rref, added>>

\* MakeActionRef(id) enters Registry.GetById(id): the map read starts, and
\* no lock is taken.
MakeActionRefBegin(r, id) ==
    /\ Alive
    /\ rpc[r] = "idle"
    /\ rpc' = [rpc EXCEPT ![r] = "reading"]
    /\ rid' = [rid EXCEPT ![r] = id]
    /\ rraced' = [rraced EXCEPT ![r] = FALSE]
    /\ UNCHANGED <<actions, mu, wpc, warg, rref, added>>

\* ActionRef.Scan(src): a string or a []byte goes to MakeActionRef, any other
\* type returns an error and leaves the ActionRef alone.
Scan(r, src) ==
    IF src.type \in {"string", "[]byte"}
    THEN MakeActionRefBegin(r, src.val)
    ELSE /\ Alive
         /\ rpc[r] = "idle"
         /\ UNCHANGED actionVars

\* What GetById may hand back: the stored pointer, or, when the read raced
\* with a write, any pointer (the runtime may also stop the process).
ActionPtrs == {Nil} \cup {Ptr(a) : a \in BaseAction}

\* GetById returns and MakeActionRef builds the ActionRef.
MakeActionRefEnd(r) ==
    /\ Alive
    /\ rpc[r] = "reading"
    /\ \/ /\ \E action \in (IF rraced[r] THEN ActionPtrs ELSE {GetById(rid[r])}) :
                rref' = [rref EXCEPT ![r] = MakeActionRefFrom(rid[r], action)]
          /\ rpc' = [rpc EXCEPT ![r] = "idle"]
       \/ /\ rraced[r]
          /\ rpc' = [rpc EXCEPT ![r] = "fatal"]
          /\ UNCHANGED rref
    /\ rid' = [rid EXCEPT ![r] = ""]
    /\ rraced' = [rraced EXCEPT ![r] = FALSE]
    /\ UNCHANGED <<actions, mu, wpc, warg, added>>

ScanSources == [type : {"string", "[]byte", "int64"}, val : ActionIds]

(***************************************************************************)
(* yep/models/generate.go: reflected types                                 *)
(***************************************************************************)
\* generate.ModelsPath and generate.PoolPath: the import paths of the models
\* package and of the generated pool package
ModelsPath == "github.com/npiganeau/yep/yep/models"
PoolPath == "github.com/npiganeau/yep/pool"
TimePath == "time"

\* The package name a type's String() is qualified with.
PkgQualifier(pkg) ==
    CASE pkg = ModelsPath -> <<"models.">>
      [] pkg = PoolPath -> <<"pool.">>
      [] pkg = TimePath -> <<"time.">>
      [] OTHER -> <<>>

\* A reflect.Type: mods are its pointer and slice layers, outermost first,
\* around a named type declared in package pkg ("" for a built-in type).
\* Strings are sequences of tokens; "pool." is always a token of its own.
MkType(mods, pkg, name) == [mods |-> mods, pkg |-> pkg, name |-> name]
TString == MkType(<<>>, "", <<"string">>)
TTime == MkType(<<>>, TimePath, <<"Time">>)
TRecordCollection == MkType(<<>>, ModelsPath, <<"RecordCollection">>)
TSet(model) == MkType(<<>>, PoolPath, <<model, "Set">>)
PtrTo(t) == [t EXCEPT !.mods = <<"*">> \o @]
SliceOf(t) == [t EXCEPT !.mods = <<"[]">> \o @]

\* reflect.Type.Kind() == reflect.Ptr
IsPtr(t) == t.mods # <<>> /\ Head(t.mods) = "*"
\* reflect.Type.Elem()
Elem(t) == [t EXCEPT !.mods = Tail(@)]
\* reflect.Type.PkgPath(): empty for unnamed (pointer, slice) and built-in types
PkgPath(t) == IF t.mods = <<>> THEN t.pkg ELSE ""
\* reflect.Type.String()
TypeString(t) == t.mods \o PkgQualifier(t.pkg) \o t.name

\* strings.Replace(s, old, "", 1) on token sequences
RECURSIVE ReplaceOnce(_, _)
ReplaceOnce(s, old) ==
    IF s = <<>> THEN <<>>
    ELSE IF Head(s) = old THEN Tail(s)
    ELSE <<Head(s)>> \o ReplaceOnce(Tail(s), old)

\* sanitizedFieldType(mi, typ): the emitted type name and whether typ is the
\* RecordCollection type
SanitizedNoRewrap(miName, typ) ==
    [str |-> ReplaceOnce(TypeString(typ), "pool."), isRC |-> typ = TRecordCollection]
sanitizedFieldType(miName, typ) ==
    LET isRC == typ = TRecordCollection
        typStr == IF isRC THEN <<miName, "Set">> ELSE TypeString(typ)
    IN  [str |-> ReplaceOnce(typStr, "pool."), isRC |-> isRC]

\* The pointer layers addDependency strips.
RECURSIVE StripPtr(_)
StripPtr(t) == IF IsPtr(t) THEN StripPtr(Elem(t)) ELSE t

\* addDependency(data, typ, deps) on the pair acc = [Deps, deps]: Deps is
\* data.Deps, deps the set of paths the deps map holds as true.
addDependency(acc, typ) ==
    LET fDep == PkgPath(StripPtr(typ))
    IN  [Deps |-> IF fDep # "" /\ fDep \notin acc.deps
                  THEN Append(acc.Deps, fDep) ELSE acc.Deps,
         deps |-> acc.deps \cup {fDep}]

(***************************************************************************)
(* yep/models/generate.go: the generation unit of one model                *)
(***************************************************************************)
\* specificMethods: generated by their own template sections
specificMethods == {"Create", "First", "All"}

\* A Go slice: a backing array and a length; its capacity is Len(arr).
MkSlice(arr, len) == [arr |-> arr, len |-> len]
SliceElems(s) == SubSeq(s.arr, 1, s.len)

\* append(s, elems...): writes into the backing array of s when the capacity
\* suffices, and copies into a new array otherwise.
GoAppend(s, elems) ==
    IF s.len + Len(elems) <= Len(s.arr)
    THEN MkSlice([i \in 1..Len(s.arr) |->
                     IF i > s.len /\ i <= s.len + Len(elems)
                     THEN elems[i - s.len] ELSE s.arr[i]],
                 s.len + Len(elems))
    ELSE MkSlice(SliceElems(s) \o elems, s.len + Len(elems))

\* The backing array of common after append(common, elems...) has run.
BackingAfterAppend(common, elems) ==
    IF common.len + Len(elems) <= Len(common.arr)
    THEN GoAppend(common, elems).arr
    ELSE common.arr

\* generate.MethodASTData of a key that astData does not hold
ZeroASTData == [Params |-> <<>>, Doc |-> ""]

\* for i := len(allMixIns) - 1; i >= 0; i-- : the first mixin, walking down
\* from index i, for which astData holds (mixin, method); 0 when none does.
RECURSIVE WalkMixIns(_, _, _, _)
WalkMixIns(ast, allMixIns, i, methodName) ==
    IF i = 0 THEN 0
    ELSE IF <<allMixIns[i], methodName>> \in DOMAIN ast THEN i
    ELSE WalkMixIns(ast, allMixIns, i - 1, methodName)

RECURSIVE WalkMixInsUp(_, _, _, _)
WalkMixInsUp(ast, allMixIns, i, methodName) ==
    IF i > Len(allMixIns) THEN 0
    ELSE IF <<allMixIns[i], methodName>> \in DOMAIN ast THEN i
    ELSE WalkMixInsUp(ast, allMixIns, i + 1, methodName)

\* The key under which addMethodsToModelData finds dParams for a method of
\* model miName: <<model, method>>, or <<>> when astData holds none of them.
LookupKeyOldestFirst(ast, common, miName, mixins, methodName) ==
    IF <<miName, methodName>> \in DOMAIN ast THEN <<miName, methodName>>
    ELSE LET allMixIns == SliceElems(GoAppend(common, mixins))
             hit == WalkMixInsUp(ast, allMixIns, 1, methodName)
         IN  IF hit # 0 THEN <<allMixIns[hit], methodName>>
             ELSE IF <<"", methodName>> \in DOMAIN ast THEN <<"", methodName>>
             ELSE <<>>
LookupKey(ast, common, miName, mixins, methodName) ==
    IF <<miName, methodName>> \in DOMAIN ast THEN <<miName, methodName>>
    ELSE LET allMixIns == SliceElems(GoAppend(common, mixins))
             hit == WalkMixIns(ast, allMixIns, Len(allMixIns), methodName)
         IN  IF hit # 0 THEN <<allMixIns[hit], methodName>>
             ELSE IF <<"", methodName>> \in DOMAIN ast THEN <<"", methodName>>
             ELSE <<>>

\* dParams
LookupASTData(ast, common, miName, mixins, methodName) ==
    LET key == LookupKey(ast, common, miName, mixins, methodName)
    IN  IF key = <<>> THEN ZeroASTData ELSE ast[key]

\* modelRegistry.commonMixins after the lookup: the append runs only when
\* the exact key is missing, and its result goes to the local allMixIns.
CommonAfterLookupAssigned(ast, common, miName, mixins, methodName) ==
    IF <<miName, methodName>> \in DOMAIN ast THEN common
    ELSE GoAppend(common, mixins)
CommonAfterLookup(ast, common, miName, mixins, methodName) ==
    IF <<miName, methodName>> \in DOMAIN ast THEN common
    ELSE MkSlice(BackingAfterAppend(common, mixins), common.len)

\* fieldInfo.isRelationField()
isRelationField(fi) == fi.isRelation

\* One iteration of the loop of addFieldsToModelData.
AddField(acc, mi, fieldName) ==
    LET fi == mi.fields[fieldName]
        typStr == IF isRelationField(fi)
                  THEN <<fi.relatedModelName, "Set">>
                  ELSE sanitizedFieldType(mi.name, fi.structType).str
        typIsRS == isRelationField(fi)
        dep == addDependency([Deps |-> acc.Deps, deps |-> acc.deps], fi.structType)
    IN  [acc EXCEPT !.Fields = Append(@, [Name |-> fieldName, Type |-> typStr,
                                          TypeIsRS |-> typIsRS]),
                    !.Deps = dep.Deps,
                    !.deps = dep.deps]

\* addFieldsToModelData: mi.fields.registryByName is ranged over in the
\* order the map iteration yields, here order.
RECURSIVE addFieldsToModelData(_, _, _)
addFieldsToModelData(acc, mi, order) ==
    IF order = <<>> THEN acc
    ELSE addFieldsToModelData(AddField(acc, mi, Head(order)), mi, Tail(order))

\* The parameter loop of addMethodsToModelData, one parameter: i counts the
\* parameters from 1, the receiver excluded.
ParamSanitized(miName, methInfo, i) ==
    IF methInfo.variadic /\ i = Len(methInfo.in)
    THEN LET v == sanitizedFieldType(miName, Elem(methInfo.in[i]))
         IN  [str |-> <<"...">> \o v.str, isRC |-> v.isRC]
    ELSE sanitizedFieldType(miName, methInfo.in[i])

\* paramsType[i]: "<name> <type>"
ParamWithType(miName, methInfo, dParams, i) ==
    [name |-> dParams.Params[i], type |-> ParamSanitized(miName, methInfo, i).str]

\* params[i]: "<name>.RecordCollection" for a RecordCollection, else "<name>"
Param(miName, methInfo, dParams, i) ==
    [name |-> dParams.Params[i],
     suffix |-> IF ParamSanitized(miName, methInfo, i).isRC
                THEN <<".RecordCollection">> ELSE <<>>]

\* addDependency(mData, methType.In(i+1), deps) for the parameters i..n
RECURSIVE ParamDependencies(_, _, _)
ParamDependencies(dep, in, i) ==
    IF i > Len(in) THEN dep
    ELSE ParamDependencies(addDependency(dep, in[i]), in, i + 1)

\* The recovered names cover the reflected parameters: dParams.Params[i] is
\* indexed for every i below methType.NumIn()-1, and an index past the end of
\* the slice panics.
NamesCoverParams(dParams, methInfo) == Len(dParams.Params) >= Len(methInfo.in)

\* The body of the loop of addMethodsToModelData after the lookup of
\* dParams: the parameter loop, the return type and the methodData appended.
WrapMethod(acc, mi, methodName, dParams) ==
    LET methInfo == mi.methods[methodName]
        n == Len(methInfo.in)
    IN  IF ~NamesCoverParams(dParams, methInfo)
        THEN [acc EXCEPT !.panicked = TRUE]
        ELSE
        LET dep1 == ParamDependencies([Deps |-> acc.Deps, deps |-> acc.deps],
                                      methInfo.in, 1)
            hasOut == Len(methInfo.out) > 0
            ret == IF hasOut THEN sanitizedFieldType(mi.name, methInfo.out[1])
                   ELSE [str |-> <<>>, isRC |-> FALSE]
            dep2 == IF hasOut THEN addDependency(dep1, methInfo.out[1]) ELSE dep1
            methData ==
                [Name |-> methodName,
                 Doc |-> methInfo.doc,
                 Params |-> [i \in 1..n |-> Param(mi.name, methInfo, dParams, i)],
                 ParamsWithType |->
                     [i \in 1..n |-> ParamWithType(mi.name, methInfo, dParams, i)],
                 Returns |-> ret.str,
                 ReturnsIsRS |-> ret.isRC]
        IN  [acc EXCEPT !.Methods = Append(@, methData),
                        !.Deps = dep2.Deps,
                        !.deps = dep2.deps]

\* One iteration of the loop of addMethodsToModelData. acc.common is
\* modelRegistry.commonMixins.
AddMethod(acc, ast, mi, methodName) ==
    IF acc.panicked \/ methodName \in specificMethods THEN acc
    ELSE
    LET common == acc.common
        dParams == LookupASTData(ast, common, mi.name, mi.mixins, methodName)
        after == CommonAfterLookup(ast, common, mi.name, mi.mixins, methodName)
    IN  [WrapMethod(acc, mi, methodName, dParams) EXCEPT !.common = after]

\* addMethodsToModelData: mi.methods.registry is ranged over in the order
\* the map iteration yields, here order.
RECURSIVE addMethodsToModelData(_, _, _, _)
addMethodsToModelData(acc, ast, mi, order) ==
    IF order = <<>> THEN acc
    ELSE addMethodsToModelData(AddMethod(acc, ast, mi, Head(order)),
                               ast, mi, Tail(order))

\* The deps map and mData that generateModelPoolFile starts from.
InitialUnit(common) ==
    [Fields |-> <<>>, Methods |-> <<>>, Deps |-> <<ModelsPath>>,
     deps |-> {PoolPath}, common |-> common, panicked |-> FALSE]

\* generateModelPoolFile up to the call of CreateFileFromTemplate: the
\* generation unit, whether assembling it panicked, and the common mixins
\* slice afterwards.
AssembleUnit(mi, ast, common, fieldOrder, methodOrder) ==
    LET a0 == InitialUnit(common)
        a1 == addFieldsToModelData(a0, mi, fieldOrder)
        a2 == addMethodsToModelData(a1, ast, mi, methodOrder)
    IN  [mData |-> [Name |-> mi.name, Deps |-> a2.Deps,
                    Fields |-> a2.Fields, Methods |-> a2.Methods],
         panicked |-> a2.panicked,
         common |-> a2.common]

\* The entry of unit u for field f, and for method k.
UnitField(u, f) == u.Fields[CHOOSE i \in DOMAIN u.Fields : u.Fields[i].Name = f]
UnitMethod(u, k) == u.Methods[CHOOSE i \in DOMAIN u.Methods : u.Methods[i].Name = k]

(***************************************************************************)
(* Bootstrap simulation: createModelLinks, inflateMixIns,                  *)
(* inflateEmbeddings, generateMethodsDoc. Their code is in the models      *)
(* package outside generate.go; they are modelled from section 4.1 of the  *)
(* specification.                                                          *)
(***************************************************************************)
\* All orders in which a range loop may visit the keys S of a map.
Orders(S) ==
    {o \in [1..Cardinality(S) -> S] : \A i, j \in DOMAIN o : i # j => o[i] # o[j]}

\* A relation field names a model the registry does not hold.
LinkError(reg) ==
    \E m \in DOMAIN reg : \E f \in DOMAIN reg[m].fields :
        /\ reg[m].fields[f].isRelation
        /\ reg[m].fields[f].relatedModelName \notin DOMAIN reg

\* createModelLinks: resolve the target model of every relation field.
createModelLinks(reg) ==
    [m \in DOMAIN reg |->
        LET flds == reg[m].fields
        IN  [reg[m] EXCEPT !.fields =
                [f \in DOMAIN flds |->
                    IF flds[f].isRelation THEN [flds[f] EXCEPT !.linked = TRUE]
                    ELSE flds[f]]]]

\* Copy the members of source into target: a copied member overrides what an
\* earlier mixin or embedding gave, and never the target's own declaration.
MergeMembers(tm, sm, via) ==
    [k \in DOMAIN tm \cup DOMAIN sm |->
        IF k \in DOMAIN tm /\ (tm[k].via = "own" \/ k \notin DOMAIN sm)
        THEN tm[k]
        ELSE [sm[k] EXCEPT !.via = via]]

MergeModel(target, source, via) ==
    [target EXCEPT !.fields = MergeMembers(target.fields, source.fields, via),
                   !.methods = MergeMembers(target.methods, source.methods, via)]

\* Inflate model m from the models named in sources, in that order.
RECURSIVE InflateFrom(_, _, _, _)
InflateFrom(reg, m, sources, via) ==
    IF sources = <<>> THEN reg
    ELSE InflateFrom([reg EXCEPT ![m] = MergeModel(reg[m], reg[Head(sources)], via)],
                     m, Tail(sources), via)

\* inflateMixIns: for every model, in the order the registry is ranged over,
\* copy the fields and methods of each of its declared mixins.
RECURSIVE inflateMixIns(_, _)
inflateMixIns(reg, order) ==
    IF order = <<>> THEN reg
    ELSE inflateMixIns(InflateFrom(reg, Head(order), reg[Head(order)].mixins, "mixin"),
                       Tail(order))

\* inflateEmbeddings: the same for embedded models, marking the origin.
RECURSIVE inflateEmbeddings(_, _)
inflateEmbeddings(reg, order) ==
    IF order = <<>> THEN reg
    ELSE inflateEmbeddings(InflateFrom(reg, Head(order), reg[Head(order)].embeds, "embed"),
                           Tail(order))

\* generateMethodsDoc: give every method its documentation string.
generateMethodsDoc(reg) ==
    [m \in DOMAIN reg |->
        LET meths == reg[m].methods
        IN  [reg[m] EXCEPT !.methods =
                [k \in DOMAIN meths |-> [meths[k] EXCEPT !.doc = meths[k].declDoc]]]]

\* The order in which GeneratePool calls the four bootstrap functions.
BootstrapStepsEmbeddingsFirst ==
    <<"createModelLinks", "inflateEmbeddings", "inflateMixIns", "generateMethodsDoc">>
BootstrapSteps ==
    <<"createModelLinks", "inflateMixIns", "inflateEmbeddings", "generateMethodsDoc">>

(***************************************************************************)
(* Static declarations the runs start from                                 *)
(***************************************************************************)
ModelNames == {"Base", "Addr", "User", "USER"}

\* strings.ToLower on the model names
ToLower(name) ==
    CASE name = "Base" -> "base"
      [] name = "Addr" -> "addr"
      [] name = "User" -> "user"
      [] name = "USER" -> "user"
      [] OTHER -> name

\* fmt.Sprintf("%s.go", strings.ToLower(modelName))
FileName(modelName) == <<ToLower(modelName), ".go">>
AllFileNames == {FileName(m) : m \in ModelNames}

\* A field as its model declares it: not yet linked.
FieldInfo(decl, m) ==
    [isRelation |-> decl.isRelation, relatedModelName |-> decl.relatedModelName,
     structType |-> decl.structType, via |-> "own", origin |-> m, linked |-> FALSE]
FieldDecl(isRelation, related, typ) ==
    [isRelation |-> isRelation, relatedModelName |-> related, structType |-> typ]

\* A method as its model declares it: the reflected signature without the
\* receiver, and no documentation yet.
MethInfo(sig, m) ==
    [in |-> sig.in, variadic |-> sig.variadic, out |-> sig.out,
     doc |-> <<>>, declDoc |-> <<"doc of", m>>, via |-> "own", origin |-> m]
Sig(in, variadic, out) == [in |-> in, variadic |-> variadic, out |-> out]

ModelInfo(name, fields, methods, mixins, embeds) ==
    [name |-> name, fields |-> fields, methods |-> methods,
     mixins |-> mixins, embeds |-> embeds]

\* generate.MethodASTData recovered for (model, method) with n parameter
\* names; a name records the key it was recovered for.
ASTEntry(model, n) ==
    [Params |-> [i \in 1..n |-> <<model, i>>], Doc |-> <<"doc of", model>>]

\* A function given by a set of <<key, value>> pairs with distinct keys.
FnOf(pairs) == [k \in {q[1] : q \in pairs} |-> (CHOOSE q \in pairs : q[1] = k)[2]]

Declaration(reg, common, spare, ast) ==
    [registry |-> reg,
     common |-> MkSlice(common \o [i \in 1..spare |-> ""], Len(common)),
     ast |-> ast]

FieldDecls ==
    { FieldDecl(FALSE, "", TString),
      FieldDecl(FALSE, "", TTime),
      FieldDecl(FALSE, "", PtrTo(TTime)),
      FieldDecl(FALSE, "", TRecordCollection),
      FieldDecl(TRUE, "Addr", TRecordCollection),
      FieldDecl(TRUE, "Addr", TSet("Addr")),
      FieldDecl(TRUE, "Ghost", TRecordCollection) }

Sigs ==
    { Sig(<<>>, FALSE, <<>>),
      Sig(<<TString>>, FALSE, <<TRecordCollection>>),
      Sig(<<TRecordCollection, PtrTo(TTime)>>, FALSE, <<TTime>>),
      Sig(<<TSet("Addr"), SliceOf(TTime)>>, TRUE, <<TSet("Addr")>>) }

SigCreate == Sig(<<PtrTo(TSet("User"))>>, FALSE, <<TRecordCollection>>)
SigOne == Sig(<<TString>>, FALSE, <<TRecordCollection>>)

\* Composition: mixins in both orders, an embedded model with a mixin of its
\* own, and members declared at several levels. Links have depth one: a
\* model used as a mixin declares no mixins.
Range(seq) == {seq[i] : i \in DOMAIN seq}

FlatLinks(reg) ==
    \A m \in DOMAIN reg :
        /\ \A x \in Range(reg[m].mixins) : x \in DOMAIN reg /\ reg[x].mixins = <<>>
        /\ \A x \in Range(reg[m].embeds) : x \in DOMAIN reg /\ reg[x].embeds = <<>>

ComposeCandidates ==
    { Declaration(
        FnOf({ <<"Base", ModelInfo("Base",
                    FnOf({<<"F", FieldInfo(FieldDecl(FALSE, "", TString), "Base")>>}),
                    FnOf({<<"Meth", MethInfo(Sig(<<>>, FALSE, <<>>), "Base")>>}),
                    <<>>, <<>>)>>,
               <<"Addr", ModelInfo("Addr",
                    FnOf({<<"F", FieldInfo(FieldDecl(FALSE, "", TTime), "Addr")>>,
                          <<"G", FieldInfo(FieldDecl(FALSE, "", TString), "Addr")>>}),
                    <<>>, addrMix, <<>>)>>,
               <<"User", ModelInfo("User",
                    FnOf({<<"F", FieldInfo(FieldDecl(TRUE, "Addr", TRecordCollection), "User")>>
                            : x \in ownF}),
                    <<>>, userMix, userEmb)>> }),
        <<>>, 0, <<>>)
      : ownF \in SUBSET {1},
        userMix \in {<<>>, <<"Base">>, <<"Base", "Addr">>, <<"Addr", "Base">>},
        userEmb \in {<<>>, <<"Addr">>},
        addrMix \in {<<>>, <<"Base">>} }

ComposeDeclarations == {d \in ComposeCandidates : FlatLinks(d.registry)}

\* Types and signatures: one model with a field of every kind, a method of
\* every signature, and a recovered name list of every length.
AddrPlain ==
    ModelInfo("Addr", FnOf({<<"G", FieldInfo(FieldDecl(FALSE, "", TString), "Addr")>>}),
              <<>>, <<>>, <<>>)

TypeDeclarations ==
    { Declaration(
        FnOf({ <<"Addr", AddrPlain>>,
               <<"User", ModelInfo("User",
                    FnOf({<<"F", FieldInfo(fd, "User")>>}
                         \cup {<<"G", FieldInfo(FieldDecl(FALSE, "", PtrTo(TTime)), "User")>>
                                 : x \in ownG}),
                    FnOf({<<"Meth", MethInfo(sig, "User")>>,
                          <<"Create", MethInfo(SigCreate, "User")>>}),
                    <<>>, <<>>)>> }),
        <<>>, 0,
        FnOf({<<(<<"User", "Meth">>), ASTEntry("User", n)>> : n \in names}))
      : fd \in FieldDecls, ownG \in SUBSET {1}, sig \in Sigs,
        names \in {{}} \cup {{n} : n \in 0..MaxNames} }

\* Lookup: one method with one parameter, its names recovered under any
\* subset of the keys, the mixins in either order, with and without a common
\* mixin and spare capacity in the common mixins slice.
MixinWithMeth(name) ==
    ModelInfo(name, <<>>, FnOf({<<"Meth", MethInfo(SigOne, name)>>}), <<>>, <<>>)

LookupDeclarations ==
    { Declaration(
        FnOf({ <<"Base", MixinWithMeth("Base")>>,
               <<"Addr", MixinWithMeth("Addr")>>,
               <<"User", ModelInfo("User", <<>>,
                    FnOf({<<"Meth", MethInfo(SigOne, "User")>>}), userMix, <<>>)>> }),
        common, spare,
        FnOf({<<(<<k, "Meth">>), ASTEntry(k, 1)>> : k \in keys}))
      : userMix \in {<<>>, <<"Addr">>, <<"Base", "Addr">>, <<"Addr", "Base">>},
        common \in {<<>>, <<"Base">>},
        spare \in 0..MaxSpare,
        keys \in SUBSET {"User", "Base", "Addr", ""} }

\* Several models: any set of registered models, each with one method of one
\* parameter whose recovered name list is missing a name for the models in
\* short.
ManyDeclarations ==
    { Declaration(
        [m \in models |->
            ModelInfo(m, FnOf({<<"G", FieldInfo(FieldDecl(FALSE, "", TString), m)>>}),
                      FnOf({<<"Meth", MethInfo(SigOne, m)>>}), <<>>, <<>>)],
        <<>>, 0,
        [k \in {<<m, "Meth">> : m \in models} |->
            ASTEntry(k[1], IF k[1] \in short THEN 0 ELSE 1)])
      : models \in {ms \in SUBSET ModelNames : "User" \in ms},
        short \in SUBSET {"Addr", "USER"} }

Declarations ==
    ComposeDeclarations \cup TypeDeclarations \cup LookupDeclarations
        \cup ManyDeclarations

(***************************************************************************)
(* GeneratePool                                                            *)
(***************************************************************************)
NoFile == <<>>

\* GeneratePool is called: the bootstrap simulation starts.
GeneratePoolCall ==
    /\ pc = "idle"
    /\ run < MaxRuns
    /\ run' = run + 1
    /\ pc' = "bootstrap"
    /\ bstep' = 1
    /\ atCall' = [registry |-> registry, common |-> SliceElems(commonMixins)]
    /\ writer' = [f \in AllFileNames |-> <<>>]
    /\ todo' = {}
    /\ UNCHANGED <<registry, commonMixins, astData, files, declared, afterBoot>>

\* A bootstrap function returned with the registry reg: call the next one,
\* or enter the loop over modelRegistry.registryByName.
BootstrapAdvance(reg) ==
    /\ registry' = reg
    /\ IF bstep = Len(BootstrapSteps)
       THEN /\ pc' = "loop"
            /\ todo' = DOMAIN reg
            /\ afterBoot' = Append(afterBoot, reg)
            /\ UNCHANGED bstep
       ELSE /\ bstep' = bstep + 1
            /\ UNCHANGED <<pc, todo, afterBoot>>
    /\ UNCHANGED <<commonMixins, astData, run, files, writer, declared, atCall>>

AtBootstrapStep(name) == pc = "bootstrap" /\ BootstrapSteps[bstep] = name

\* createModelLinks(); an unknown target model is a fatal configuration error.
CreateModelLinks ==
    /\ AtBootstrapStep("createModelLinks")
    /\ IF LinkError(registry)
       THEN /\ pc' = "panicked"
            /\ UNCHANGED <<registry, commonMixins, astData, bstep, run, todo, files,
                           writer, declared, atCall, afterBoot>>
       ELSE BootstrapAdvance(createModelLinks(registry))

\* inflateMixIns()
InflateMixIns ==
    /\ AtBootstrapStep("inflateMixIns")
    /\ \E order \in Orders(DOMAIN registry) :
           BootstrapAdvance(inflateMixIns(registry, order))

\* inflateEmbeddings()
InflateEmbeddings ==
    /\ AtBootstrapStep("inflateEmbeddings")
    /\ \E order \in Orders(DOMAIN registry) :
           BootstrapAdvance(inflateEmbeddings(registry, order))

\* generateMethodsDoc()
GenerateMethodsDoc ==
    /\ AtBootstrapStep("generateMethodsDoc")
    /\ BootstrapAdvance(generateMethodsDoc(registry))

\* One iteration of the loop of GeneratePool: generateModelPoolFile for a
\* model the map iteration yields. A panic while assembling the unit ends
\* the process before CreateFileFromTemplate is reached.
GenerateModelPoolFile(modelName) ==
    /\ pc = "loop"
    /\ modelName \in todo
    /\ \E fieldOrder \in Orders(DOMAIN registry[modelName].fields),
          methodOrder \in Orders(DOMAIN registry[modelName].methods) :
        LET u == AssembleUnit(registry[modelName], astData, commonMixins,
                              fieldOrder, methodOrder)
        IN  /\ commonMixins' = u.common
            /\ IF u.panicked
               THEN /\ pc' = "panicked"
                    /\ UNCHANGED <<files, writer, todo>>
               ELSE /\ files' = [files EXCEPT ![FileName(modelName)] = <<u.mData>>]
                    /\ writer' = [writer EXCEPT ![FileName(modelName)] =
                                                    Append(@, modelName)]
                    /\ todo' = todo \ {modelName}
                    /\ UNCHANGED pc
    /\ UNCHANGED <<registry, astData, bstep, run, declared, atCall, afterBoot>>

\* The loop has visited every model: GeneratePool returns.
GeneratePoolReturn ==
    /\ pc = "loop"
    /\ todo = {}
    /\ pc' = "idle"
    /\ UNCHANGED <<registry, commonMixins, astData, bstep, run, todo, files, writer,
                   declared, atCall, afterBoot>>

(***************************************************************************)
(* generateModelPoolFile run for two models by two goroutines, after the   *)
(* bootstrap: the parallel per-model emission of section 5 of the          *)
(* specification. The steps of a goroutine are the ones that touch         *)
(* modelRegistry.commonMixins and the output directory.                    *)
(***************************************************************************)
Workers == {"g1", "g2"}
\* The model each goroutine generates the file of.
WorkerModel(w) == IF w = "g1" THEN "User" ELSE "Addr"

\* A string read while another goroutine writes it: neither value.
Torn == "<torn>"

\* allMixIns before the append of line 161 has run.
NoSlice == [shared |-> FALSE, own |-> <<>>, len |-> 0]

\* pc is "off" while no goroutine runs generateModelPoolFile.
WorkerAt(start) ==
    [pc |-> start, acc |-> InitialUnit(MkSlice(<<>>, 0)), todo |-> <<>>,
     all |-> NoSlice, raced |-> {}, wrote |-> {}, read |-> {}]
WorkersInit == workers = [w \in Workers |-> WorkerAt("off")]

\* dParams when the exact key is missing: the walk down allMixIns, then the
\* key with the empty model name.
WalkedASTData(ast, allMixIns, methodName) ==
    LET hit == WalkMixIns(ast, allMixIns, Len(allMixIns), methodName)
    IN  IF hit # 0 THEN ast[<<allMixIns[hit], methodName>>]
        ELSE IF <<"", methodName>> \in DOMAIN ast THEN ast[<<"", methodName>>]
        ELSE ZeroASTData

\* The elements of allMixIns the walk reads, from the last one down to the
\* first hit.
WalkedSlots(ast, allMixIns, methodName) ==
    LET hit == WalkMixIns(ast, allMixIns, Len(allMixIns), methodName)
    IN  {i \in DOMAIN allMixIns : i >= hit}

\* generateModelPoolFile up to the loop over the methods: the fields.
WorkerStart(w) ==
    LET mi == registry[WorkerModel(w)]
    IN  /\ workers[w].pc = "ready"
        /\ \E fieldOrder \in Orders(DOMAIN mi.fields),
              methodOrder \in Orders(DOMAIN mi.methods) :
             workers' = [workers EXCEPT
                 ![w].pc = "method",
                 ![w].acc = addFieldsToModelData(InitialUnit(commonMixins), mi, fieldOrder),
                 ![w].todo = methodOrder]
        /\ UNCHANGED genVars

\* One iteration of the loop over the methods for a method that is skipped
\* or whose exact key astData holds: no mixin list is built.
WorkerMethod(w) ==
    LET mi == registry[WorkerModel(w)]
        k == Head(workers[w].todo)
    IN  /\ workers[w].pc = "method"
        /\ workers[w].todo # <<>>
        /\ k \in specificMethods \/ <<mi.name, k>> \in DOMAIN astData
        /\ LET acc == IF k \in specificMethods THEN workers[w].acc
                      ELSE WrapMethod(workers[w].acc, mi, k, astData[<<mi.name, k>>])
           IN  workers' = [workers EXCEPT
                   ![w].pc = IF acc.panicked THEN "panicked" ELSE "method",
                   ![w].acc = acc,
                   ![w].todo = Tail(@)]
        /\ UNCHANGED genVars

\* allMixIns := append(modelRegistry.commonMixins, mi.mixins...): with enough
\* capacity the mixins are written into the backing array of commonMixins,
\* which every goroutine's allMixIns then shares; a goroutine that is
\* walking a shared allMixIns has those elements written under it.
WorkerAppend(w) ==
    LET mi == registry[WorkerModel(w)]
        k == Head(workers[w].todo)
        n == commonMixins.len + Len(mi.mixins)
        fits == n <= Len(commonMixins.arr)
        written == IF fits THEN (commonMixins.len + 1)..n ELSE {}
    IN  /\ workers[w].pc = "method"
        /\ workers[w].todo # <<>>
        /\ k \notin specificMethods
        /\ <<mi.name, k>> \notin DOMAIN astData
        /\ commonMixins' = MkSlice(BackingAfterAppend(commonMixins, mi.mixins),
                                   commonMixins.len)
        /\ workers' = [v \in Workers |->
              IF v = w
              THEN [workers[w] EXCEPT
                      !.pc = "walk",
                      !.all = [shared |-> fits,
                               own |-> IF fits THEN <<>>
                                       ELSE SliceElems(commonMixins) \o mi.mixins,
                               len |-> n],
                      !.raced = {},
                      !.wrote = @ \cup written]
              ELSE IF workers[v].pc = "walk" /\ workers[v].all.shared
                   THEN [workers[v] EXCEPT
                           !.raced = @ \cup (written \cap 1..workers[v].all.len)]
                   ELSE workers[v]]
        /\ UNCHANGED <<registry, astData, pc, bstep, run, todo, files, writer,
                       declared, atCall, afterBoot>>

\* What the walk can read as allMixIns: the goroutine's own array, or the
\* shared one, where an element written by another goroutine since the
\* append reads as either value or as a torn string.
PossibleReads(w) ==
    LET mi == registry[WorkerModel(w)]
        all == workers[w].all
    IN  IF ~all.shared THEN {all.own}
        ELSE {e \in [1..all.len -> ModelNames \cup {"", Torn}] :
                \A i \in 1..all.len :
                    e[i] \in IF i \in workers[w].raced
                             THEN {mi.mixins[i - commonMixins.len],
                                   commonMixins.arr[i], Torn}
                             ELSE {commonMixins.arr[i]}}

\* The walk down allMixIns and the rest of the iteration.
WorkerWalk(w) ==
    LET mi == registry[WorkerModel(w)]
        k == Head(workers[w].todo)
    IN  /\ workers[w].pc = "walk"
        /\ \E allMixIns \in PossibleReads(w) :
             LET acc == WrapMethod(workers[w].acc, mi, k,
                                   WalkedASTData(astData, allMixIns, k))
                 slots == IF workers[w].all.shared
                          THEN {i \in WalkedSlots(astData, allMixIns, k) :
                                    i > commonMixins.len}
                          ELSE {}
             IN  workers' = [workers EXCEPT
                     ![w].pc = IF acc.panicked THEN "panicked" ELSE "method",
                     ![w].acc = acc,
                     ![w].todo = Tail(@),
                     ![w].all = NoSlice,
                     ![w].raced = {},
                     ![w].read = @ \cup slots]
        /\ UNCHANGED genVars

\* generate.CreateFileFromTemplate(fileName, defsFileTemplate, mData)
WorkerWrite(w) ==
    LET m == WorkerModel(w)
        acc == workers[w].acc
        mData == [Name |-> m, Deps |-> acc.Deps, Fields |-> acc.Fields,
                  Methods |-> acc.Methods]
    IN  /\ workers[w].pc = "method"
        /\ workers[w].todo = <<>>
        /\ files' = [files EXCEPT ![FileName(m)] = <<mData>>]
        /\ writer' = [writer EXCEPT ![FileName(m)] = Append(@, m)]
        /\ workers' = [workers EXCEPT ![w].pc = "done"]
        /\ UNCHANGED <<registry, commonMixins, astData, pc, bstep, run, todo,
                       declared, atCall, afterBoot>>

\* Two models with one method each and at most one mixin, the two mixins
\* being different models; any set of keys in astData.
ParallelDeclarations ==
    { Declaration(
        FnOf({ <<"Base", MixinWithMeth("Base")>>,
               <<"USER", MixinWithMeth("USER")>>,
               <<"User", ModelInfo("User", <<>>,
                    FnOf({<<"Meth", MethInfo(SigOne, "User")>>}), userMix, <<>>)>>,
               <<"Addr", ModelInfo("Addr", <<>>,
                    FnOf({<<"Meth", MethInfo(SigOne, "Addr")>>}), addrMix, <<>>)>> }),
        common, spare,
        FnOf({<<(<<k, "Meth">>), ASTEntry(k, 1)>> : k \in keys}))
      : userMix \in {<<>>, <<"Base">>},
        addrMix \in {<<>>, <<"USER">>},
        common \in {<<>>, <<"Base">>},
        spare \in 0..MaxSpare,
        keys \in SUBSET {"User", "Base", "USER", ""} }

(***************************************************************************)
(* The generated pool package (defsFileTemplate) as yep/tests uses it: the *)
(* models Test__Post and Test__Tag, the accessors of Test__PostSet and the *)
(* Union wrapper of Test__TagSet. The accessors delegate to                *)
(* models.RecordCollection, whose code is in the models package outside    *)
(* generate.go; it is modelled from section 6 of the specification.        *)
(***************************************************************************)
\* The records the tests create.
Posts == {"post1", "post2"}
Tags == {"Trending", "Books", "Jane's"}
Titles == {"1st Post", "2nd Post"}

\* Test__Post and Test__Tag as composed by the bootstrap: Tags is a
\* many2many relation to Test__Tag, Union a method inherited by every model.
PostModel ==
    ModelInfo("Test__Post",
              FnOf({<<"Tags", FieldInfo(FieldDecl(TRUE, "Test__Tag", TRecordCollection),
                                        "Test__Post")>>,
                    <<"Title", FieldInfo(FieldDecl(FALSE, "", TString), "Test__Post")>>}),
              <<>>, <<>>, <<>>)
TagModel ==
    ModelInfo("Test__Tag",
              FnOf({<<"Name", FieldInfo(FieldDecl(FALSE, "", TString), "Test__Tag")>>}),
              FnOf({<<"Union", MethInfo(Sig(<<TRecordCollection>>, FALSE,
                                            <<TRecordCollection>>), "Test__Tag")>>}),
              <<>>, <<>>)
PoolASTData == FnOf({<<<<"Test__Tag", "Union">>, ASTEntry("Test__Tag", 1)>>})

\* The generation units the two files of the pool package are rendered from.
PostUnit ==
    AssembleUnit(PostModel, PoolASTData, MkSlice(<<>>, 0), <<"Tags", "Title">>, <<>>).mData
TagUnit ==
    AssembleUnit(TagModel, PoolASTData, MkSlice(<<>>, 0), <<"Name">>, <<"Union">>).mData

\* Go values with their dynamic type. A models.RecordCollection holds the
\* records of one model in some order, each once.
RCType == TypeString(TRecordCollection)
RecordCollection(model, ids) == [typ |-> RCType, model |-> model, ids |-> ids]
GoString(v) == [typ |-> TypeString(TString), val |-> v]
Panic == [typ |-> <<"panic">>]
NoResult == [typ |-> <<>>]

\* type {{ .Name }}Set struct { models.RecordCollection }
SetOf(typ, rc) == [typ |-> typ, RecordCollection |-> rc]
\* New{{ .Name }}Set(env) narrowed by Filter or Search to the records ids
NewSet(model, ids) == SetOf(<<model, "Set">>, RecordCollection(model, ids))

\* Recordsets of at most MaxRecords records.
DistinctSeqs(S) ==
    UNION {Orders(T) : T \in {U \in SUBSET S : Cardinality(U) <= MaxRecords}}
PostSets == {NewSet("Test__Post", ids) : ids \in DistinctSeqs(Posts)}
TagSets == {NewSet("Test__Tag", ids) : ids \in DistinctSeqs(Tags)}

\* v.(T): the value when its dynamic type is T, else a panic
TypeAssert(v, typ) == IF v.typ = typ THEN v ELSE Panic

\* ---- models.RecordCollection, from section 6 of the specification ----
\* The records of a models.RecordSet value: a RecordCollection, or a
\* generated set that embeds one.
rcIds(value) ==
    IF value.typ = RCType THEN value.ids ELSE value.RecordCollection.ids

\* Set(field, value): updates the field of all the records of rc; panics on
\* an empty recordset. A relation field takes the records of value.
rcSet(d, mi, rc, field, value) ==
    IF rc.ids = <<>> THEN Panic
    ELSE [p \in DOMAIN d |->
            IF p \in Range(rc.ids)
            THEN [d[p] EXCEPT ![field] = IF mi.fields[field].isRelation
                                         THEN Range(rcIds(value)) ELSE value]
            ELSE d[p]]

\* Get(field): the value of the field of the first record of rc, the zero
\* value on an empty recordset. A relation field yields the related records
\* as a RecordCollection, in the order the query returns them.
rcGet(d, mi, rc, field, order) ==
    LET fi == mi.fields[field]
    IN  IF fi.isRelation
        THEN RecordCollection(fi.relatedModelName,
                              IF rc.ids = <<>> THEN <<>> ELSE order)
        ELSE IF rc.ids = <<>> THEN GoString("") ELSE d[rc.ids[1]][field]

\* The orders in which Get may return the records of a relation field.
GetOrders(d, mi, rc, field) ==
    IF mi.fields[field].isRelation /\ rc.ids # <<>>
    THEN Orders(d[rc.ids[1]][field]) ELSE {<<>>}

\* Union(other): the records of both, each once.
rcUnion(rc, other) ==
    RecordCollection(rc.model,
                     rc.ids \o SelectSeq(other.ids, LAMBDA x : x \notin Range(rc.ids)))

\* Call(methodName, args...)
rcCall(rc, methodName, args) ==
    IF methodName = "Union" THEN rcUnion(rc, args[1]) ELSE NoResult

\* Len()
rcLen(rc) == Len(rc.ids)

\* ---- defsFileTemplate ----
\* func (s {{ $.Name }}Set) {{ .Name }}() {{ .Type }}, given what
\* s.RecordCollection.Get("{{ .Name }}") returned
GetterAssertsOwnType(field, v) == TypeAssert(v, field.Type)
Getter(field, v) ==
    IF field.TypeIsRS
    THEN IF TypeAssert(v, RCType) = Panic THEN Panic
         ELSE SetOf(field.Type, TypeAssert(v, RCType))
    ELSE TypeAssert(v, field.Type)

\* func (s {{ $.Name }}Set) Set{{ .Name }}(value {{ .Type }})
Setter(d, mi, field, s, value) ==
    rcSet(d, mi, s.RecordCollection, field.Name, value)

\* func (s {{ $.Name }}Set) {{ .Name }}({{ .ParamsWithType }}) {{ .Returns }}
MethodWrapper(md, s, args) ==
    LET params == [i \in DOMAIN args |->
                      IF md.Params[i].suffix = <<".RecordCollection">>
                      THEN args[i].RecordCollection ELSE args[i]]
        res == rcCall(s.RecordCollection, md.Name, params)
    IN  IF md.Returns = <<>> THEN NoResult
        ELSE IF md.ReturnsIsRS
             THEN IF TypeAssert(res, RCType) = Panic THEN Panic
                  ELSE SetOf(md.Returns, TypeAssert(res, RCType))
             ELSE TypeAssert(res, md.Returns)

\* The posts and tags the tests create: no post has a tag yet.
PoolInit ==
    /\ db = [p \in Posts |->
                [Tags |-> {},
                 Title |-> GoString(IF p = "post1" THEN "1st Post" ELSE "2nd Post")]]
    /\ got = NoResult
    /\ tagged = [p \in Posts |-> {}]

\* post.SetTags(a.Union(b))
SetTags(post, a, b) ==
    LET value == MethodWrapper(UnitMethod(TagUnit, "Union"), a, <<b>>)
        field == UnitField(PostUnit, "Tags")
    IN  /\ value # Panic
        /\ value.typ = field.Type
        /\ LET d == Setter(db, PostModel, field, post, value)
           IN  IF d = Panic
               THEN /\ got' = Panic
                    /\ UNCHANGED <<db, tagged>>
               ELSE /\ db' = d
                    /\ got' = NoResult
                    /\ tagged' = [p \in Posts |->
                                    IF p \in Range(rcIds(post))
                                    THEN Range(rcIds(a)) \cup Range(rcIds(b))
                                    ELSE tagged[p]]

\* post.Tags()
GetTags(post) ==
    /\ \E order \in GetOrders(db, PostModel, post.RecordCollection, "Tags") :
          got' = Getter(UnitField(PostUnit, "Tags"),
                        rcGet(db, PostModel, post.RecordCollection, "Tags", order))
    /\ UNCHANGED <<db, tagged>>

\* post.SetTitle(title)
SetTitle(post, title) ==
    LET field == UnitField(PostUnit, "Title")
        d == Setter(db, PostModel, field, post, GoString(title))
    IN  /\ GoString(title).typ = field.Type
        /\ IF d = Panic
           THEN got' = Panic /\ UNCHANGED db
           ELSE got' = NoResult /\ db' = d
        /\ UNCHANGED tagged

\* post.Title()
GetTitle(post) ==
    /\ got' = Getter(UnitField(PostUnit, "Title"),
                     rcGet(db, PostModel, post.RecordCollection, "Title", <<>>))
    /\ UNCHANGED <<db, tagged>>

(***************************************************************************)
(* Specifications                                                          *)
(***************************************************************************)
ActionsInit ==
    /\ actions = NewActionsCollection
    /\ mu = NoHolder
    /\ wpc = [w \in Writers |-> "idle"]
    /\ warg = [w \in Writers |-> ZeroAction]
    /\ rpc = [r \in Readers |-> "idle"]
    /\ rid = [r \in Readers |-> ""]
    /\ rraced = [r \in Readers |-> FALSE]
    /\ rref = [r \in Readers |-> EmptyRef]
    /\ added = [id \in ActionIds |-> <<>>]

GenInit(d, start) ==
    /\ registry = d.registry
    /\ commonMixins = d.common
    /\ astData = d.ast
    /\ pc = start
    /\ bstep = 1
    /\ run = 0
    /\ todo = {}
    /\ files = [f \in AllFileNames |-> NoFile]
    /\ writer = [f \in AllFileNames |-> <<>>]
    /\ declared = d.registry
    /\ atCall = [registry |-> d.registry, common |-> SliceElems(d.common)]
    /\ afterBoot = <<>>

\* The generator, from any of the static declarations.
Init ==
    /\ ActionsInit
    /\ WorkersInit
    /\ PoolInit
    /\ \E d \in Declarations : GenInit(d, "idle")

Next ==
    \/ GeneratePoolCall /\ UNCHANGED <<actionVars, poolVars, parVars>>
    \/ CreateModelLinks /\ UNCHANGED <<actionVars, poolVars, parVars>>
    \/ InflateMixIns /\ UNCHANGED <<actionVars, poolVars, parVars>>
    \/ InflateEmbeddings /\ UNCHANGED <<actionVars, poolVars, parVars>>
    \/ GenerateMethodsDoc /\ UNCHANGED <<actionVars, poolVars, parVars>>
    \/ (\E m \in ModelNames : GenerateModelPoolFile(m)) /\ UNCHANGED <<actionVars, poolVars, parVars>>
    \/ GeneratePoolReturn /\ UNCHANGED <<actionVars, poolVars, parVars>>

Spec == Init /\ [][Next]_vars

\* The action registry with concurrent callers; no generator runs.
InitActions ==
    /\ ActionsInit
    /\ WorkersInit
    /\ PoolInit
    /\ GenInit(Declaration(<<>>, <<>>, 0, <<>>), "off")

NextActions ==
    \/ (\E w \in Writers, a \in BaseAction : AddLock(w, a)) /\ UNCHANGED <<genVars, poolVars, parVars>>
    \/ (\E w \in Writers : AddStore(w)) /\ UNCHANGED <<genVars, poolVars, parVars>>
    \/ (\E w \in Writers : AddUnlock(w)) /\ UNCHANGED <<genVars, poolVars, parVars>>
    \/ (\E r \in Readers, id \in ActionIds : MakeActionRefBegin(r, id)) /\ UNCHANGED <<genVars, poolVars, parVars>>
    \/ (\E r \in Readers, src \in ScanSources : Scan(r, src)) /\ UNCHANGED <<genVars, poolVars, parVars>>
    \/ (\E r \in Readers : MakeActionRefEnd(r)) /\ UNCHANGED <<genVars, poolVars, parVars>>

SpecActions == InitActions /\ [][NextActions]_vars

\* The generated accessors called one after the other, as a test does; no
\* generator runs and no action is registered.
InitPool ==
    /\ ActionsInit
    /\ WorkersInit
    /\ GenInit(Declaration(<<>>, <<>>, 0, <<>>), "off")
    /\ PoolInit

NextPool ==
    \/ (\E post \in PostSets, a, b \in TagSets : SetTags(post, a, b))
          /\ UNCHANGED <<actionVars, genVars, parVars>>
    \/ (\E post \in PostSets : GetTags(post)) /\ UNCHANGED <<actionVars, genVars, parVars>>
    \/ (\E post \in PostSets, title \in Titles : SetTitle(post, title))
          /\ UNCHANGED <<actionVars, genVars, parVars>>
    \/ (\E post \in PostSets : GetTitle(post)) /\ UNCHANGED <<actionVars, genVars, parVars>>

SpecPool == InitPool /\ [][NextPool]_vars

\* Two goroutines, each running generateModelPoolFile for its model, on a
\* registry the bootstrap has completed.
InitParallel ==
    /\ ActionsInit
    /\ PoolInit
    /\ \E d \in ParallelDeclarations : GenInit(d, "off")
    /\ workers = [w \in Workers |-> WorkerAt("ready")]

NextParallel ==
    \/ (\E w \in Workers : WorkerStart(w)) /\ UNCHANGED <<actionVars, poolVars>>
    \/ (\E w \in Workers : WorkerMethod(w)) /\ UNCHANGED <<actionVars, poolVars>>
    \/ (\E w \in Workers : WorkerAppend(w)) /\ UNCHANGED <<actionVars, poolVars>>
    \/ (\E w \in Workers : WorkerWalk(w)) /\ UNCHANGED <<actionVars, poolVars>>
    \/ (\E w \in Workers : WorkerWrite(w)) /\ UNCHANGED <<actionVars, poolVars>>

SpecParallel == InitParallel /\ [][NextParallel]_vars

(***************************************************************************)
(* Properties                                                              *)
(***************************************************************************)
\* The models for which the current run has written a file, and the units.
WrittenModels == {m \in DOMAIN registry : \E i \in DOMAIN writer[FileName(m)] :
                                              writer[FileName(m)][i] = m}
WrittenFiles == {f \in AllFileNames : writer[f] # <<>>}
Units == {files[f][1] : f \in {g \in AllFileNames : files[g] # NoFile}}
Returned == pc = "idle" /\ run >= 1

RegisteredRef(id) ==
    IF added[id] = <<>> THEN EmptyRef ELSE <<id, added[id][1]>>

\* C2 as claimed: after any sequence of registrations MakeActionRef(id) is
\* (id, name registered under id), or the empty pair when id is not
\* registered; the empty pair encodes to null and every non-empty pair
\* encodes to the array [id, name].
C2_AsClaimed ==
    \A id \in ActionIds :
        LET ref == MakeActionRef(id)
        IN  /\ ref = RegisteredRef(id)
            /\ ref = EmptyRef => MarshalJSON(ref) = JSONNull
            /\ ref # EmptyRef => MarshalJSON(ref) = JSONArray(ref)

\* C2, amended: MakeActionRef(id) is (id, name registered under id), or the
\* empty pair when id is not registered; a pair whose id is the empty string
\* (the empty pair, and the pair of an action registered under the empty id)
\* encodes to null, never to an array, and a pair with a non-empty id encodes
\* to the array [id, name].
C2_ActionRef ==
    \A id \in ActionIds :
        LET ref == MakeActionRef(id)
        IN  /\ ref = RegisteredRef(id)
            /\ ref[1] = "" => MarshalJSON(ref) = JSONNull
            /\ ref[1] # "" => MarshalJSON(ref) = JSONArray(<<id, added[id][1]>>)
            /\ MarshalJSON(EmptyRef) # JSONArray(EmptyRef)

\* "a1" is registered as "My Action" and a caller got its reference, while
\* the unregistered empty id yields the empty pair
C2_Witness ==
    /\ added["a1"] = <<"My Action">>
    /\ added[""] = <<>>
    /\ \E r \in Readers : rpc[r] = "idle" /\ rref[r] = <<"a1", "My Action">>
    /\ MakeActionRef("") = EmptyRef
    /\ MarshalJSON(MakeActionRef("a1")) = <<"[", "a1", "My Action", "]">>

\* C3 as claimed: no caller reads the table while a registration is in
\* progress, that is while a caller of Add holds the write lock.
C3_NoReadDuringRegistration ==
    \A r \in Readers :
        rpc[r] = "reading" => \A w \in Writers : wpc[w] \notin {"locked", "stored"}

\* The methods of model m that get a generic wrapper.
WrappedMethods(m) == DOMAIN registry[m].methods \ specificMethods

\* The parameter names recovered for method k of model m.
RecoveredNames(m, k) ==
    LookupASTData(astData, commonMixins, m, registry[m].mixins, k).Params

\* C4 as claimed: a model with a method whose recovered name list is shorter
\* or longer than its reflected parameter list gets no output file, so every
\* model that got one has name lists of exactly the reflected length.
C4_MismatchFails ==
    \A m \in WrittenModels : \A k \in WrappedMethods(m) :
        Len(RecoveredNames(m, k)) = Len(registry[m].methods[k].in)

\* The reflected types the unit of model m is assembled from.
UnitTypes(m) ==
    {registry[m].fields[f].structType : f \in DOMAIN registry[m].fields}
    \cup UNION {Range(registry[m].methods[k].in) : k \in WrappedMethods(m)}
    \cup {registry[m].methods[k].out[1] :
            k \in {j \in WrappedMethods(m) : registry[m].methods[j].out # <<>>}}

Occurrences(seq, x) == Cardinality({i \in DOMAIN seq : seq[i] = x})

\* C5 as claimed: in every unit, the package path of every field, parameter
\* and return type that has one (pointers stripped) is in Deps exactly once,
\* the models package path included.
C5_DepsExactlyOnce ==
    \A u \in Units : \A t \in UnitTypes(u.Name) :
        PkgPath(StripPtr(t)) # "" => Occurrences(u.Deps, PkgPath(StripPtr(t))) = 1

\* C6: in every unit, a field whose reflected type is RecordCollection is
\* emitted as <Target>Set, Target being the related model of a relation field
\* and the unit's own model otherwise, and a method returning RecordCollection
\* is emitted as returning <Model>Set for the unit's model; neither is emitted
\* under the name of the RecordCollection type.
C6_RecordCollectionRewrapped ==
    \A u \in Units :
        LET mi == registry[u.Name]
        IN  /\ \A f \in DOMAIN mi.fields :
                 mi.fields[f].structType = TRecordCollection =>
                   /\ UnitField(u, f).Type =
                        <<IF mi.fields[f].isRelation
                          THEN mi.fields[f].relatedModelName ELSE u.Name, "Set">>
                   /\ UnitField(u, f).Type # TypeString(TRecordCollection)
            /\ \A k \in WrappedMethods(u.Name) :
                 (mi.methods[k].out # <<>> /\ mi.methods[k].out[1] = TRecordCollection) =>
                   /\ UnitMethod(u, k).Returns = <<u.Name, "Set">>
                   /\ UnitMethod(u, k).Returns # TypeString(TRecordCollection)

\* a unit was written with a RecordCollection relation field to Addr and a
\* method returning RecordCollection
C6_Witness ==
    \E u \in Units :
        /\ u.Name = "User"
        /\ "F" \in DOMAIN registry["User"].fields
        /\ registry["User"].fields["F"].structType = TRecordCollection
        /\ registry["User"].fields["F"].isRelation
        /\ UnitField(u, "F").Type = <<"Addr", "Set">>
        /\ "Meth" \in DOMAIN registry["User"].methods
        /\ registry["User"].methods["Meth"].out = <<TRecordCollection>>
        /\ UnitMethod(u, "Meth").Returns = <<"User", "Set">>

\* The key the claimed order selects for method k of model m: the exact key,
\* else the last mixin of the composed list (common mixins, then the model's
\* own) that has an entry, else the key with the empty model name.
ClaimedKey(m, k) ==
    LET composed == SliceElems(commonMixins) \o registry[m].mixins
        hits == {i \in DOMAIN composed : <<composed[i], k>> \in DOMAIN astData}
    IN  IF <<m, k>> \in DOMAIN astData THEN <<m, k>>
        ELSE IF hits # {}
             THEN <<composed[CHOOSE i \in hits : \A j \in hits : j <= i], k>>
             ELSE <<"", k>>

C8_AsClaimed ==
    Returned =>
        /\ Cardinality(WrittenFiles) = Cardinality(DOMAIN registry)
        /\ \A f \in AllFileNames : Len(writer[f]) <= 1

\* C9 as claimed: a run that aborts leaves files for all the registered
\* models or for none of them.
C9_NoPartialOutput ==
    pc = "panicked" => (WrittenModels = {} \/ WrittenModels = DOMAIN registry)

\* C10 as claimed: when GeneratePool returns, the registry and the common
\* mixin list are what they were when it was called.
C10_AsClaimed ==
    Returned =>
        /\ registry = atCall.registry
        /\ SliceElems(commonMixins) = atCall.common

\* C10, amended: GeneratePool changes the registry only in the bootstrap
\* simulation it starts with; from the end of that bootstrap on, through the
\* loop over the models and up to the return or a panic, every model's
\* fields, methods and mixin list are what the bootstrap left, and the common
\* mixin list is what it was at the call.
C10_RegistryFrozenAfterBootstrap ==
    (run >= 1 /\ Len(afterBoot) = run /\ pc # "bootstrap") =>
        /\ registry = afterBoot[run]
        /\ SliceElems(commonMixins) = atCall.common
        /\ commonMixins.len = Len(atCall.common)

\* a call returned after its bootstrap changed the registry and after a
\* lookup appended a model's mixins into the spare capacity of the common
\* mixins slice
C10_Witness ==
    /\ Returned
    /\ registry # atCall.registry
    /\ \E i \in DOMAIN commonMixins.arr : i > commonMixins.len /\ commonMixins.arr[i] # ""

SequentialRuns(m) ==
    {AssembleUnit(registry[m], astData, commonMixins, fieldOrder, methodOrder) :
        fieldOrder \in Orders(DOMAIN registry[m].fields),
        methodOrder \in Orders(DOMAIN registry[m].methods)}

\* No goroutine writes state that another one reads or writes, and the
\* registry and the common mixin list stay what they were.
NoSharedWrites ==
    /\ \A w, v \in Workers :
           w # v => workers[w].wrote \cap (workers[v].wrote \cup workers[v].read) = {}
    /\ registry = declared
    /\ SliceElems(commonMixins) = atCall.common

\* Every goroutine ends as the sequential run for its model does: with the
\* same generation unit written, or with a panic when that one panics.
SameUnits ==
    \A w \in Workers :
        /\ workers[w].pc = "done" =>
               \E u \in SequentialRuns(WorkerModel(w)) :
                   ~u.panicked /\ files[FileName(WorkerModel(w))] = <<u.mData>>
        /\ workers[w].pc = "panicked" =>
               \E u \in SequentialRuns(WorkerModel(w)) : u.panicked

\* C12 as claimed: after the bootstrap, generateModelPoolFile for two
\* different models, interleaved in any way, writes no state that the other
\* run reads or writes, and yields the same two generation units as running
\* them one after the other.
C12_IndependentUnits ==
    NoSharedWrites /\ SameUnits

\* An emitted type name of the form <Model>Set.
IsSetTypeName(typ) == Len(typ) = 2 /\ typ[2] = "Set"

\* C13 as claimed: for every field of every generation unit, TypeIsRS is
\* true exactly when the emitted type is a generated recordset type
\* <Model>Set; no field whose reflected type is RecordCollection is emitted
\* as <Model>Set with the flag false.
C13_FlagIffSetType ==
    \A u \in Units : \A i \in DOMAIN u.Fields :
        u.Fields[i].TypeIsRS <=> IsSetTypeName(u.Fields[i].Type)

====
